---- MODULE Spec2Model ----
(***************************************************************************)
(* Model of the dengue-forecasting repository's visible code:              *)
(*   src/src/utils/visualizer.py          (class Visualizer)               *)
(*   src/data_quality/test_data_quality.py (test_data_quality)             *)
(*                                                                         *)
(* Data frames are records [index, cols]; Python objects that the code     *)
(* shares by reference live in a heap (a sequence of objects addressed by  *)
(* position), so that df.copy() and df[col] = v keep their meaning.        *)
(* matplotlib.pyplot's global figure registry is the variable figs.        *)
(***************************************************************************)
EXTENDS Integers, Sequences, FiniteSets, TLC

VARIABLES
    heap,        \* the caller's objects: test_df, predictions, historical_df, forecast_df, importance_df
    args,        \* the scalar arguments of the call under study
    self,        \* the Visualizer instance: figsize, show_plots, output_dir
    ret,         \* what the last data operation returned / handed to the plotting backend
    figs,        \* pyplot's registry of open figures, oldest first; the last is the current figure
    canvas,      \* per figure: the artists drawn on it and the formatting applied through pyplot
    files,       \* the output directory: filename -> saved image
    calls,       \* the plotting calls started so far, each with its position (pc)
    title,       \* title argument of plot_feature_importance
    stdout,      \* lines printed by print_feature_importance
    datasets,    \* the two CSV files of the data-quality check
    outcome      \* result of test_data_quality

vars == <<heap, args, self, ret, figs, canvas, files, calls, title, stdout, datasets, outcome>>

----------------------------------------------------------------------------
(* Bounds *)
MaxRows == 4          \* rows of the frame given to add_quarter_date
MaxTestRows == 2      \* rows of test_df in plot_actual_vs_predicted
MaxHistRows == 3      \* rows of historical_df in plot_forecast
MaxForecastRows == 2  \* rows of forecast_df in plot_forecast
MaxCalls == 2         \* plotting calls in a sequential run
MaxTitleLen == 3      \* characters of a title
MaxImpRows == 2       \* rows of importance_df

----------------------------------------------------------------------------
(* Values *)

\* float('nan'): the value pandas fills in where a label has no match
NaN == -1

\* Python's None for an optional argument
None == 0

RECURSIVE SeqsUpTo(_, _)
SeqsUpTo(S, n) ==
    IF n = 0 THEN {<<>>}
    ELSE LET prev == SeqsUpTo(S, n - 1)
         IN  prev \cup {Append(s, x) : s \in {p \in prev : Len(p) = n - 1}, x \in S}

Range(s) == {s[i] : i \in 1..Len(s)}

IsUnique(s) == \A i, j \in 1..Len(s) : s[i] = s[j] => i = j

----------------------------------------------------------------------------
(* Quarter strings and dates: pd.PeriodIndex(..., freq='Q').to_timestamp()  *)

Digits == <<"0", "1", "2", "3", "4", "5", "6", "7", "8", "9">>

DigitVal(c) == (CHOOSE d \in 1..10 : Digits[d] = c) - 1

\* the string f"{year}Q{quarter}" as a sequence of characters
FormatYQ(y, q) ==
    << Digits[((y \div 1000) % 10) + 1], Digits[((y \div 100) % 10) + 1],
       Digits[((y \div 10) % 10) + 1], Digits[(y % 10) + 1], "Q", Digits[q + 1] >>

\* Period parsing of "YYYYQn" with freq='Q'
ParsePeriod(s) ==
    [year    |-> 1000 * DigitVal(s[1]) + 100 * DigitVal(s[2])
                 + 10 * DigitVal(s[3]) + DigitVal(s[4]),
     quarter |-> DigitVal(s[6])]

\* Period.to_timestamp(): how='start', the first instant of the period
ToTimestampEnd(p) == [year |-> p.year, month |-> 3 * p.quarter, day |-> 31]

to_timestamp(p) == [year |-> p.year, month |-> 3 * (p.quarter - 1) + 1, day |-> 1]

DateOrd(d) == (d.year * 12 + (d.month - 1)) * 31 + (d.day - 1)

DateLess(a, b) == DateOrd(a) < DateOrd(b)

\* pd.PeriodIndex(column, freq='Q').to_timestamp(), element by element
QuarterDates(col) == [i \in 1..Len(col) |-> to_timestamp(ParsePeriod(col[i]))]

----------------------------------------------------------------------------
(* Frames and the heap *)

Frame(idx, columns) == [index |-> idx, cols |-> columns]

HasCol(df, c) == c \in DOMAIN df.cols

NRows(df) == Len(df.index)

\* df[mask]: the positions of the rows the mask keeps, in frame order
RECURSIVE Positions(_, _, _)
Positions(n, kept, i) ==
    IF i > n THEN <<>>
    ELSE (IF i \in kept THEN <<i>> ELSE <<>>) \o Positions(n, kept, i + 1)

TakeRows(df, pos) ==
    Frame([k \in 1..Len(pos) |-> df.index[pos[k]]],
          [c \in DOMAIN df.cols |-> [k \in 1..Len(pos) |-> df.cols[c][pos[k]]]])

\* df.copy(): a new object with the same contents
CopyNoCopy(h, r) == [h |-> h, r |-> r]

Copy(h, r) == [h |-> Append(h, h[r]), r |-> Len(h) + 1]

\* df[col] = values, in place on the object at r
SetCol(h, r, c, values) ==
    [h EXCEPT ![r] = Frame(h[r].index,
        [k \in DOMAIN h[r].cols \cup {c} |-> IF k = c THEN values ELSE h[r].cols[k]])]

\* Visualizer.add_quarter_date: copy, add the 'date' column to the copy, return the copy.
\* raised: KeyError when there is no 'year_quarter' column.
add_quarter_date(h, r) ==
    IF ~HasCol(h[r], "year_quarter")
    THEN [h |-> h, r |-> 0, raised |-> TRUE]
    ELSE LET c == Copy(h, r)
         IN  [h |-> SetCol(c.h, c.r, "date", QuarterDates(c.h[c.r].cols["year_quarter"])),
              r |-> c.r, raised |-> FALSE]

----------------------------------------------------------------------------
(* plot_actual_vs_predicted: the data it prepares and hands to ax.plot *)

\* a predictions argument: a plain sequence (list / ndarray) or an indexed pd.Series
PlainList(values) == [kind |-> "list", index |-> <<>>, values |-> values]

Series(idx, values) == [kind |-> "series", index |-> idx, values |-> values]

\* Series.reindex(index): the value at each label of index, NaN where the label is absent
Reindex(value, idx) ==
    [i \in 1..Len(idx) |->
        IF idx[i] \in Range(value.index)
        THEN value.values[CHOOSE k \in 1..Len(value.index) : value.index[k] = idx[i]]
        ELSE NaN]

\* what plot_df[col] = value stores: a plain sequence is taken by position, a Series
\* is aligned on the frame's index labels (pandas DataFrame.__setitem__)
Aligned(df, value) ==
    IF value.kind = "list"
    THEN [raised |-> Len(value.values) # NRows(df), values |-> value.values]
    ELSE IF value.index = df.index \/ NRows(df) = 0
         THEN [raised |-> FALSE, values |-> value.values]
         ELSE IF ~IsUnique(value.index)
              THEN [raised |-> TRUE, values |-> <<>>]
              ELSE [raised |-> FALSE, values |-> Reindex(value, df.index)]

\* lines 71-73: plot_df = self.add_quarter_date(test_df.copy()); plot_df['predicted'] = predictions
avp_prepare(h, test, preds) ==
    LET c == Copy(h, test)
        a == add_quarter_date(c.h, c.r)
    IN  IF a.raised THEN [h |-> a.h, r |-> 0, raised |-> TRUE]
        ELSE LET v == Aligned(a.h[a.r], a.h[preds])
             IN  IF v.raised THEN [h |-> a.h, r |-> 0, raised |-> TRUE]
                 ELSE [h |-> SetCol(a.h, a.r, "predicted", v.values), r |-> a.r, raised |-> FALSE]

\* lines 78-90: the historical context, years year - hist_years .. year - 1
\* hist = 0 stands for historical_df=None. raised: a KeyError of a missing column.
avp_history(h, hist, year, hist_years) ==
    IF hist = None THEN [h |-> h, r |-> 0, raised |-> FALSE]
    ELSE LET c == Copy(h, hist)
             a == add_quarter_date(c.h, c.r)
         IN  IF a.raised \/ ~HasCol(h[hist], "year") THEN [h |-> a.h, r |-> 0, raised |-> TRUE]
             ELSE LET df == a.h[a.r]
                      kept == {i \in 1..NRows(df) : df.cols["year"][i] <= year - 1
                                                    /\ df.cols["year"][i] >= year - hist_years}
                      train_hist == TakeRows(df, Positions(NRows(df), kept, 1))
                  IN  [h |-> Append(a.h, train_hist), r |-> Len(a.h) + 1,
                       raised |-> ~HasCol(train_hist, "casos_est")]

\* lines 92-108: the actual and predicted series; KeyError when test_df has no 'casos_est'
avp_series_raises(plot_df) == ~HasCol(plot_df, "casos_est")

----------------------------------------------------------------------------
(* plot_forecast: lines 155-176, all before the figure is created *)

\* lines 160-163: `if hist_start_year:` is false for None (and for 0)
FilterHist(hist_plot, hist_start_year) ==
    IF hist_start_year # None
    THEN LET kept == {i \in 1..NRows(hist_plot) : hist_plot.cols["year"][i] >= hist_start_year}
         IN  TakeRows(hist_plot, Positions(NRows(hist_plot), kept, 1))
    ELSE hist_plot

\* lines 166-167: hist[...].iloc[-1] raises IndexError on an empty frame
LastHistFirstRow(hist) ==
    IF NRows(hist) = 0 \/ ~HasCol(hist, "casos_est")
    THEN [raised |-> TRUE, date |-> to_timestamp([year |-> 0, quarter |-> 1]), value |-> NaN]
    ELSE [raised |-> FALSE, date |-> hist.cols["date"][1], value |-> hist.cols["casos_est"][1]]

LastHistOrBlank(hist) ==
    IF NRows(hist) = 0 \/ ~HasCol(hist, "casos_est")
    THEN [raised |-> FALSE, date |-> to_timestamp([year |-> 0, quarter |-> 1]), value |-> NaN]
    ELSE [raised |-> FALSE, date |-> hist.cols["date"][NRows(hist)],
          value |-> hist.cols["casos_est"][NRows(hist)]]

LastHist(hist) ==
    IF NRows(hist) = 0 \/ ~HasCol(hist, "casos_est")
    THEN [raised |-> TRUE, date |-> to_timestamp([year |-> 0, quarter |-> 1]), value |-> NaN]
    ELSE [raised |-> FALSE, date |-> hist.cols["date"][NRows(hist)],
          value |-> hist.cols["casos_est"][NRows(hist)]]

\* lines 170-176: pd.concat([one anchor row, forecast rows], ignore_index=True)
ForecastConnected(last, forecast_plot) ==
    LET n == NRows(forecast_plot)
    IN  Frame([i \in 1..(n + 1) |-> i - 1],
              [c \in {"date", "predicted_casos_est"} |->
                  <<(IF c = "date" THEN last.date ELSE last.value)>> \o forecast_plot.cols[c]])

EmptyFrame == Frame(<<>>, <<>>)

forecast_prepare(h, forecast, hist, hist_start_year) ==
    LET cf == Copy(h, forecast)
        af == add_quarter_date(cf.h, cf.r)
    IN  IF af.raised THEN [h |-> af.h, raised |-> TRUE, connected |-> EmptyFrame, hist |-> EmptyFrame]
        ELSE
        LET ch == Copy(af.h, hist)
            ah == add_quarter_date(ch.h, ch.r)
        IN  IF ah.raised \/ (hist_start_year # None /\ ~HasCol(h[hist], "year"))
            THEN [h |-> ah.h, raised |-> TRUE, connected |-> EmptyFrame, hist |-> EmptyFrame]
            ELSE
            LET kept == FilterHist(ah.h[ah.r], hist_start_year)
                last == LastHist(kept)
                fp   == af.h[af.r]
            IN  IF last.raised \/ ~HasCol(fp, "predicted_casos_est")
                THEN [h |-> Append(ah.h, kept), raised |-> TRUE,
                      connected |-> EmptyFrame, hist |-> EmptyFrame]
                ELSE [h |-> Append(ah.h, kept), raised |-> FALSE,
                      connected |-> ForecastConnected(last, fp), hist |-> kept]

----------------------------------------------------------------------------
(* The caller's objects and the idle values of each part of the state *)

\* positions of the caller's objects in heap
TEST == 1
PREDS == 2
HIST == 3
FORECAST == 4
IMP == 5

NCaller == 5

Years == {2024, 2025}

Quarters == {[year |-> y, quarter |-> q] : y \in Years, q \in 1..4}

\* a feature row frame: year_quarter strings, their year, and casos_est
FeatureFrame(idx, yqs, casos) ==
    Frame(idx, [c \in {"year_quarter", "year", "casos_est"} |->
        CASE c = "year_quarter" -> [i \in 1..Len(yqs) |-> FormatYQ(yqs[i].year, yqs[i].quarter)]
          [] c = "year"         -> [i \in 1..Len(yqs) |-> yqs[i].year]
          [] OTHER              -> casos])

\* a forecast frame: year_quarter strings and predicted_casos_est
ForecastFrame(yqs, predicted) ==
    Frame([i \in 1..Len(yqs) |-> i - 1], [c \in {"year_quarter", "predicted_casos_est"} |->
        IF c = "year_quarter"
        THEN [i \in 1..Len(yqs) |-> FormatYQ(yqs[i].year, yqs[i].quarter)]
        ELSE predicted])

\* an importance frame: Feature names and Importance in ten-thousandths
ImportanceFrame(features, importances) ==
    Frame([i \in 1..Len(features) |-> i - 1], [c \in {"Feature", "Importance"} |->
        IF c = "Feature" THEN features ELSE importances])

DropCol(df, c) == Frame(df.index, [k \in DOMAIN df.cols \ {c} |-> df.cols[k]])

RangeIndex(n) == [i \in 1..n |-> i - 1]

Default2025 ==
    FeatureFrame(RangeIndex(2), <<[year |-> 2025, quarter |-> 1], [year |-> 2025, quarter |-> 2]>>,
                 <<30, 40>>)

DefaultHist ==
    FeatureFrame(RangeIndex(2), <<[year |-> 2024, quarter |-> 3], [year |-> 2024, quarter |-> 4]>>,
                 <<10, 20>>)

DefaultForecast == ForecastFrame(<<[year |-> 2025, quarter |-> 1]>>, <<50>>)

DefaultImportance == ImportanceFrame(<<"lag_1">>, <<5000>>)

\* Visualizer.__init__
NewVisualizer(show) ==
    [figsize |-> <<12, 5>>, show_plots |-> show, output_dir |-> <<"outputs", "plots">>]

NoRet == [op |-> "none", raised |-> FALSE, out |-> EmptyFrame, hist |-> EmptyFrame]

NoArgs == [year |-> 2025, hist_years |-> 2, hist_start_year |-> None, hist |-> HIST]

DataIdle ==
    /\ heap = <<Default2025, PlainList(<<1, 2>>), DefaultHist, DefaultForecast, DefaultImportance>>
    /\ args = NoArgs
    /\ ret = NoRet

PlotIdle ==
    /\ figs = <<>>
    /\ canvas = <<>>
    /\ files = <<>>
    /\ calls = <<>>

TextIdle ==
    /\ title = <<>>
    /\ stdout = <<>>

DQIdle ==
    /\ datasets = [dengue |-> [exists |-> TRUE, columns |-> {}], sst |-> [exists |-> TRUE, columns |-> {}]]
    /\ outcome = [status |-> "not_run", dataset |-> "", names |-> <<>>]

plotVars == <<figs, canvas, files, calls>>
textVars == <<title, stdout>>
dqVars == <<datasets, outcome>>

----------------------------------------------------------------------------
(* add_quarter_date called on a caller's frame *)

AddQuarterDate(r) ==
    /\ LET a == add_quarter_date(heap, r)
       IN  /\ heap' = SubSeq(a.h, 1, NCaller)
           /\ ret' = [op |-> "add_quarter_date", raised |-> a.raised,
                      out |-> IF a.raised THEN EmptyFrame ELSE a.h[a.r], hist |-> EmptyFrame]
    /\ UNCHANGED <<args, self, plotVars, textVars, dqVars>>

InitQuarter ==
    /\ \E yqs \in SeqsUpTo(Quarters, MaxRows) :
          heap = <<FeatureFrame(RangeIndex(Len(yqs)), yqs, [i \in 1..Len(yqs) |-> 10 * i]),
                   PlainList(<<1, 2>>), DefaultHist, DefaultForecast, DefaultImportance>>
    /\ args = NoArgs
    /\ ret = NoRet
    /\ self = NewVisualizer(FALSE)
    /\ PlotIdle /\ TextIdle /\ DQIdle

NextQuarter == AddQuarterDate(TEST)

SpecQuarter == InitQuarter /\ [][NextQuarter]_vars

\* character order of the quarter strings' alphabet
QuarterAlphabet == Digits \o <<"Q">>

CharOrd(c) == CHOOSE k \in 1..11 : QuarterAlphabet[k] = c

RECURSIVE StrLess(_, _)
StrLess(a, b) ==
    IF a = <<>> THEN b # <<>>
    ELSE IF b = <<>> THEN FALSE
    ELSE IF Head(a) = Head(b) THEN StrLess(Tail(a), Tail(b))
    ELSE CharOrd(Head(a)) < CharOrd(Head(b))

Y2025Quarters == [q \in 1..4 |-> FormatYQ(2025, q)]

\* C9: add_quarter_date keeps the rows and their order, maps every year_quarter to the
\* first day of that quarter, an earlier year_quarter to an earlier date, and
\* "2025Q1".."2025Q4" to 2025-01-01, 2025-04-01, 2025-07-01, 2025-10-01.
C9_QuarterDates ==
    (ret.op = "add_quarter_date") =>
        LET df == heap[TEST]
            out == ret.out
            yq == df.cols["year_quarter"]
        IN  /\ ~ret.raised
            /\ out.index = df.index
            /\ out.cols["year_quarter"] = yq
            /\ Len(out.cols["date"]) = Len(yq)
            /\ \A i \in 1..Len(yq) :
                  /\ out.cols["date"][i].day = 1
                  /\ out.cols["date"][i].year = df.cols["year"][i]
                  /\ out.cols["date"][i].month = <<1, 4, 7, 10>>[DigitVal(yq[i][6])]
            /\ \A i, j \in 1..Len(yq) :
                  StrLess(yq[i], yq[j]) => DateLess(out.cols["date"][i], out.cols["date"][j])
            /\ (yq = Y2025Quarters) =>
                  out.cols["date"] = [q \in 1..4 |-> [year |-> 2025, month |-> 3 * q - 2, day |-> 1]]

C9_Witness ==
    /\ ret.op = "add_quarter_date"
    /\ heap[TEST].cols["year_quarter"] = Y2025Quarters
    /\ Len(ret.out.cols["date"]) = 4

----------------------------------------------------------------------------
(* The data side of the plotting methods, run from start to end on the     *)
(* caller's objects; objects the method allocates die with the call.       *)

\* plot_actual_vs_predicted, lines 71-108: ret.out is plot_df, ret.hist is train_hist
PlotActualVsPredictedData ==
    /\ LET p == avp_prepare(heap, TEST, PREDS)
       IN  IF p.raised
           THEN /\ heap' = SubSeq(p.h, 1, NCaller)
                /\ ret' = [op |-> "plot_actual_vs_predicted", raised |-> TRUE,
                           out |-> EmptyFrame, hist |-> EmptyFrame]
           ELSE LET hi == avp_history(p.h, args.hist, args.year, args.hist_years)
                    bad == hi.raised \/ avp_series_raises(hi.h[p.r])
                IN  /\ heap' = SubSeq(hi.h, 1, NCaller)
                    /\ ret' = [op |-> "plot_actual_vs_predicted", raised |-> bad,
                               out |-> IF bad THEN EmptyFrame ELSE hi.h[p.r],
                               hist |-> IF bad \/ hi.r = 0 THEN EmptyFrame ELSE hi.h[hi.r]]
    /\ UNCHANGED <<args, self, plotVars, textVars, dqVars>>

\* plot_forecast, lines 155-198: ret.out is forecast_connected, ret.hist is hist
PlotForecastData ==
    /\ LET f == forecast_prepare(heap, FORECAST, HIST, args.hist_start_year)
       IN  /\ heap' = SubSeq(f.h, 1, NCaller)
           /\ ret' = [op |-> "plot_forecast", raised |-> f.raised,
                      out |-> f.connected, hist |-> f.hist]
    /\ UNCHANGED <<args, self, plotVars, textVars, dqVars>>

\* plot_feature_importance, lines 242-246: reads the two columns, writes nothing back
fi_raises(df) == ~HasCol(df, "Feature") \/ ~HasCol(df, "Importance")

PlotFeatureImportanceData ==
    /\ heap' = heap
    /\ ret' = [op |-> "plot_feature_importance", raised |-> fi_raises(heap[IMP]),
               out |-> IF fi_raises(heap[IMP]) THEN EmptyFrame ELSE heap[IMP], hist |-> EmptyFrame]
    /\ UNCHANGED <<args, self, plotVars, textVars, dqVars>>

----------------------------------------------------------------------------
(* plot_actual_vs_predicted over test frames with any index labels and      *)
(* predictions given as a plain sequence or as an indexed Series            *)

Labels == 0..2

PredValues == {10, 20}

SeqsOfLen(S, n) == {s \in SeqsUpTo(S, n) : Len(s) = n}

TestQuarters(n) == [i \in 1..n |-> [year |-> 2025, quarter |-> ((i - 1) % 4) + 1]]

InitAlign ==
    /\ \E idx \in SeqsUpTo(Labels, MaxTestRows) :
       \E values \in SeqsOfLen(PredValues, Len(idx)) :
       \E p \in {PlainList(values)} \cup {Series(pi, values) : pi \in SeqsOfLen(Labels, Len(idx))} :
          heap = <<FeatureFrame(idx, TestQuarters(Len(idx)), [i \in 1..Len(idx) |-> 100 * i]),
                   p, DefaultHist, DefaultForecast, DefaultImportance>>
    /\ \E hi \in {None, HIST} : args = [NoArgs EXCEPT !.hist = hi]
    /\ ret = NoRet
    /\ self = NewVisualizer(FALSE)
    /\ PlotIdle /\ TextIdle /\ DQIdle

NextAlign == PlotActualVsPredictedData

SpecAlign == InitAlign /\ [][NextAlign]_vars

\* C3: the 'predicted' value plotted for the i-th row of test_df is the i-th element of
\* predictions, whatever the index labels of test_df and of predictions.
C3_PositionalAlignment ==
    (ret.op = "plot_actual_vs_predicted") =>
        /\ ~ret.raised
        /\ Len(ret.out.cols["predicted"]) = NRows(heap[TEST])
        /\ \A i \in 1..NRows(heap[TEST]) : ret.out.cols["predicted"][i] = heap[PREDS].values[i]

----------------------------------------------------------------------------
(* plot_forecast over historical frames in any row order *)

ForecastQuarters(n) == [i \in 1..n |-> [year |-> 2026, quarter |-> ((i - 1) % 4) + 1]]

HistStartYears == {None, 2024, 2025, 2026}

InitForecast ==
    /\ \E yqs \in SeqsUpTo(Quarters, MaxHistRows) :
       \E n \in 0..MaxForecastRows :
          heap = <<Default2025, PlainList(<<1, 2>>),
                   FeatureFrame(RangeIndex(Len(yqs)), yqs, [i \in 1..Len(yqs) |-> 10 * i]),
                   ForecastFrame(ForecastQuarters(n), [i \in 1..n |-> 100 * i]),
                   DefaultImportance>>
    /\ \E hsy \in HistStartYears : args = [NoArgs EXCEPT !.hist_start_year = hsy]
    /\ ret = NoRet
    /\ self = NewVisualizer(FALSE)
    /\ PlotIdle /\ TextIdle /\ DQIdle

NextForecast == PlotForecastData

SpecForecast == InitForecast /\ [][NextForecast]_vars

\* positions of the historical rows with year >= hist_start_year (all rows when not given)
RetainedPositions(df, hsy) == {i \in 1..NRows(df) : hsy = None \/ df.cols["year"][i] >= hsy}

SetMax(S) == CHOOSE m \in S : \A x \in S : x <= m

ExpectedDate(yq) == [year |-> yq.year, month |-> <<1, 4, 7, 10>>[yq.quarter], day |-> 1]

\* the series has n+1 points: the last retained historical row, then the forecast rows in order
ConnectedToLastRow ==
    LET hist == heap[HIST]
        fc == heap[FORECAST]
        kept == RetainedPositions(hist, args.hist_start_year)
        last == SetMax(kept)
        out == ret.out
    IN  /\ ~ret.raised
        /\ NRows(out) = NRows(fc) + 1
        /\ Len(out.cols["date"]) = NRows(fc) + 1
        /\ Len(out.cols["predicted_casos_est"]) = NRows(fc) + 1
        /\ out.cols["date"][1] =
              ExpectedDate([year |-> hist.cols["year"][last],
                            quarter |-> DigitVal(hist.cols["year_quarter"][last][6])])
        /\ out.cols["predicted_casos_est"][1] = hist.cols["casos_est"][last]
        /\ \A k \in 1..NRows(fc) :
              /\ out.cols["date"][k + 1] = ExpectedDate(ForecastQuarters(NRows(fc))[k])
              /\ out.cols["predicted_casos_est"][k + 1] = fc.cols["predicted_casos_est"][k]

\* the anchor is no earlier than any retained historical quarter
AnchorIsLatest ==
    \A i \in RetainedPositions(heap[HIST], args.hist_start_year) :
        ~DateLess(ret.out.cols["date"][1],
                  ExpectedDate([year |-> heap[HIST].cols["year"][i],
                                quarter |-> DigitVal(heap[HIST].cols["year_quarter"][i][6])]))

ChronologicalOrder(df) ==
    \A i, j \in 1..NRows(df) :
        i < j => ~StrLess(df.cols["year_quarter"][j], df.cols["year_quarter"][i])

ForecastCase ==
    /\ ret.op = "plot_forecast"
    /\ RetainedPositions(heap[HIST], args.hist_start_year) # {}

\* C7 as stated: n+1 points, anchored on the last retained historical row, which is the
\* chronologically latest retained historical quarter.
C7_AnchorChronologicallyLatest ==
    ForecastCase => (ConnectedToLastRow /\ AnchorIsLatest)

\* C7 amended: n+1 points, anchored on the last retained historical row in frame order;
\* that row is the chronologically latest one when historical_df is in chronological order.
C7_AnchorLastRow ==
    ForecastCase =>
        /\ ConnectedToLastRow
        /\ ChronologicalOrder(heap[HIST]) => AnchorIsLatest

C7_Witness ==
    /\ ForecastCase
    /\ NRows(heap[FORECAST]) = 2
    /\ NRows(ret.out) = 3
    /\ args.hist_start_year = 2025
    /\ Cardinality(RetainedPositions(heap[HIST], args.hist_start_year)) = 2
    /\ NRows(heap[HIST]) = 3

----------------------------------------------------------------------------
(* Any sequence of Visualizer calls on the caller's frames *)

PrintFeatureImportanceData ==
    /\ heap' = heap
    /\ ret' = [op |-> "print_feature_importance", raised |-> fi_raises(heap[IMP]),
               out |-> EmptyFrame, hist |-> EmptyFrame]
    /\ UNCHANGED <<args, self, plotVars, textVars, dqVars>>

TestFrames ==
    {Default2025,
     FeatureFrame(<<4, 5>>, TestQuarters(2), <<30, 40>>),
     DropCol(Default2025, "year_quarter")}

HistFrames ==
    {DefaultHist,
     DropCol(DefaultHist, "year"),
     DropCol(DefaultHist, "casos_est"),
     FeatureFrame(<<>>, <<>>, <<>>),
     EmptyFrame}

PredictionChoices == {PlainList(<<10, 20>>), Series(<<0, 1>>, <<10, 20>>), Series(<<1, 4>>, <<10, 20>>)}

ImportanceFrames == {DefaultImportance, DropCol(DefaultImportance, "Importance")}

InitFrames ==
    /\ \E t \in TestFrames, p \in PredictionChoices, hi \in HistFrames, im \in ImportanceFrames :
          heap = <<t, p, hi, ForecastFrame(ForecastQuarters(MaxForecastRows),
                                           [i \in 1..MaxForecastRows |-> 100 * i]), im>>
    /\ \E hi \in {None, HIST}, hsy \in {None, 2024} :
          args = [NoArgs EXCEPT !.hist = hi, !.hist_start_year = hsy]
    /\ ret = NoRet
    /\ \E show \in BOOLEAN : self = NewVisualizer(show)
    /\ PlotIdle /\ TextIdle /\ DQIdle

NextFrames ==
    \/ AddQuarterDate(TEST)
    \/ AddQuarterDate(HIST)
    \/ AddQuarterDate(FORECAST)
    \/ PlotActualVsPredictedData
    \/ PlotForecastData
    \/ PlotFeatureImportanceData
    \/ PrintFeatureImportanceData

SpecFrames == InitFrames /\ [][NextFrames]_vars

\* C8: no call changes a caller's frame or predictions (columns, rows, values), nor the
\* Visualizer's figsize, show_plots and output_dir.
C8_InputsNeverMutated == [][heap' = heap /\ self' = self]_vars

C8_Witness ==
    /\ ret.op = "add_quarter_date"
    /\ ~ret.raised
    /\ HasCol(ret.out, "date")
    /\ \A r \in {TEST, HIST, FORECAST} : ~HasCol(heap[r], "date") /\ ~HasCol(heap[r], "predicted")

----------------------------------------------------------------------------
(* Text: the filename fragment of plot_feature_importance, lines 254-257 *)

UpperLetters == <<"A", "B", "C", "D", "E", "F", "G", "H", "I", "J", "K", "L", "M",
                  "N", "O", "P", "Q", "R", "S", "T", "U", "V", "W", "X", "Y", "Z">>

LowerLetters == <<"a", "b", "c", "d", "e", "f", "g", "h", "i", "j", "k", "l", "m",
                  "n", "o", "p", "q", "r", "s", "t", "u", "v", "w", "x", "y", "z">>

\* the characters str.strip() removes at both ends
Whitespace == {" ", "\t", "\n"}

RECURSIVE lstrip(_)
lstrip(s) == IF s # <<>> /\ Head(s) \in Whitespace THEN lstrip(Tail(s)) ELSE s

RECURSIVE rstrip(_)
rstrip(s) ==
    IF s # <<>> /\ s[Len(s)] \in Whitespace THEN rstrip(SubSeq(s, 1, Len(s) - 1)) ELSE s

strip(s) == rstrip(lstrip(s))

UpperChars == Range(UpperLetters)

LowerChars == Range(LowerLetters)

DigitChars == Range(Digits)

\* str.lower(), character by character
lower_char(c) ==
    IF c \in UpperChars
    THEN LowerLetters[CHOOSE k \in 1..26 : UpperLetters[k] = c]
    ELSE c

lower(s) == [i \in 1..Len(s) |-> lower_char(s[i])]

AlnumChars == UpperChars \cup LowerChars \cup DigitChars

isalnum(c) == c \in AlnumChars

\* the characters the sanitization keeps besides alphanumerics (line 255)
KeptChars == {"-", "_"}

\* "".join(c if c.isalnum() or c in ("-", "_") else "_" for c in title.strip().lower())
safe_title_no_lower(t) ==
    LET u == strip(t)
    IN  [i \in 1..Len(u) |-> IF isalnum(u[i]) \/ u[i] \in KeptChars THEN u[i] ELSE "_"]

safe_title(t) ==
    LET u == lower(strip(t))
    IN  [i \in 1..Len(u) |-> IF isalnum(u[i]) \/ u[i] \in KeptChars THEN u[i] ELSE "_"]

\* str(year) for a four-digit year
str_year(y) == SubSeq(FormatYQ(y, 1), 1, 4)

----------------------------------------------------------------------------
(* The plotting calls, statement by statement, over pyplot's global figure registry *)

Kinds == {"actual_vs_predicted", "forecast", "feature_importance"}

Finished == {"done", "raised"}

\* the arguments of one call; name is model_name, or title for feature_importance
NewCall(kind, year, name, hist, hsy) ==
    [kind |-> kind,
     pc |-> IF kind = "feature_importance" THEN "subplots" ELSE "prepare",
     fig |-> 0, closed |-> {}, year |-> year, name |-> name, hist |-> hist,
     hist_start_year |-> hsy]

CallChoices(names, titles) ==
    {NewCall("actual_vs_predicted", 2025, n, hi, None) : n \in names, hi \in {None, HIST}}
    \cup {NewCall("forecast", 2025, n, HIST, hsy) : n \in names, hsy \in {None, 2025}}
    \cup {NewCall("feature_importance", 2025, t, None, None) : t \in titles}

\* the f-string of the output filename, part by part (lines 131, 221, 258)
Filename(call) ==
    CASE call.kind = "actual_vs_predicted" ->
            <<"actual_vs_predicted_", str_year(call.year), "_", call.name, ".png">>
      [] call.kind = "forecast" ->
            <<"forecast_", str_year(call.year), "_", call.name, ".png">>
      [] OTHER -> <<"feature_importance_", safe_title(call.name), ".png">>

BlankCanvas == [artists |-> {}, xticks |-> 0, tight |-> FALSE]

\* plt.gcf(): the current figure; a new one is created when none is open
Gcf ==
    IF figs = <<>>
    THEN [figs |-> <<Len(canvas) + 1>>, canvas |-> Append(canvas, BlankCanvas), fig |-> Len(canvas) + 1]
    ELSE [figs |-> figs, canvas |-> canvas, fig |-> figs[Len(figs)]]

\* the artists each method draws on its own axes
Artists(c) ==
    LET call == calls[c]
    IN  CASE call.kind = "actual_vs_predicted" ->
                (IF call.hist = None THEN {} ELSE {<<c, "Historical (train)">>})
                \cup {<<c, "Actual">>, <<c, "Predicted">>, <<c, "Forecast start">>}
          [] call.kind = "forecast" ->
                {<<c, "Historical">>, <<c, "Forecast">>, <<c, "Forecast start">>}
          [] OTHER -> {<<c, "barh">>}

\* a new call starts; at most `limit` calls run at a time
Begin(limit, maxCalls, choices) ==
    /\ Len(calls) < maxCalls
    /\ Cardinality({c \in 1..Len(calls) : calls[c].pc \notin Finished}) < limit
    /\ \E call \in choices : calls' = Append(calls, call)
    /\ UNCHANGED <<heap, args, self, ret, figs, canvas, files, textVars, dqVars>>

\* lines 71-73 and 155-176: the data preparation that precedes the figure
Prepare(c) ==
    /\ calls[c].pc = "prepare"
    /\ LET raised == IF calls[c].kind = "actual_vs_predicted"
                     THEN avp_prepare(heap, TEST, PREDS).raised
                     ELSE forecast_prepare(heap, FORECAST, HIST, calls[c].hist_start_year).raised
       IN  calls' = [calls EXCEPT ![c].pc = IF raised THEN "raised" ELSE "subplots"]
    /\ UNCHANGED <<heap, args, self, ret, figs, canvas, files, textVars, dqVars>>

\* lines 75, 179, 239: fig, ax = plt.subplots(...) registers a new figure and makes it current
Subplots(c) ==
    /\ calls[c].pc = "subplots"
    /\ figs' = Append(figs, Len(canvas) + 1)
    /\ canvas' = Append(canvas, BlankCanvas)
    /\ calls' = [calls EXCEPT ![c].pc = "draw", ![c].fig = Len(canvas) + 1]
    /\ UNCHANGED <<heap, args, self, ret, files, textVars, dqVars>>

\* lines 78-128, 182-218, 242-252: drawing through the call's own ax
Draw(c) ==
    /\ calls[c].pc = "draw"
    /\ LET call == calls[c]
           p == avp_prepare(heap, TEST, PREDS)
           hi == avp_history(p.h, call.hist, call.year, args.hist_years)
           raised == CASE call.kind = "actual_vs_predicted" ->
                            hi.raised \/ avp_series_raises(p.h[p.r])
                       [] call.kind = "forecast" -> FALSE
                       [] OTHER -> fi_raises(heap[IMP])
           drawn == IF ~raised THEN Artists(c)
                    ELSE IF call.kind = "actual_vs_predicted" /\ ~hi.raised /\ call.hist # None
                         THEN {<<c, "Historical (train)">>}
                         ELSE {}
       IN  /\ canvas' = [canvas EXCEPT ![call.fig].artists = @ \cup drawn]
           /\ calls' = [calls EXCEPT ![c].pc =
                            IF raised THEN "raised"
                            ELSE IF call.kind = "feature_importance" THEN "tight_layout"
                            ELSE "xticks"]
    /\ UNCHANGED <<heap, args, self, ret, figs, files, textVars, dqVars>>

\* lines 129, 219: plt.xticks(rotation=45) acts on the current figure
Xticks(c) ==
    /\ calls[c].pc = "xticks"
    /\ figs' = Gcf.figs
    /\ canvas' = [Gcf.canvas EXCEPT ![Gcf.fig].xticks = 45]
    /\ calls' = [calls EXCEPT ![c].pc = "tight_layout"]
    /\ UNCHANGED <<heap, args, self, ret, files, textVars, dqVars>>

\* lines 130, 220, 253: plt.tight_layout() acts on the current figure
TightLayout(c) ==
    /\ calls[c].pc = "tight_layout"
    /\ figs' = Gcf.figs
    /\ canvas' = [Gcf.canvas EXCEPT ![Gcf.fig].tight = TRUE]
    /\ calls' = [calls EXCEPT ![c].pc = "savefig"]
    /\ UNCHANGED <<heap, args, self, ret, files, textVars, dqVars>>

\* _save_fig, lines 30-33: plt.savefig writes the current figure; the write may fail (OSError)
SaveFig(c) ==
    /\ calls[c].pc = "savefig"
    /\ figs' = Gcf.figs
    /\ canvas' = Gcf.canvas
    /\ \E ok \in BOOLEAN :
          IF ok
          THEN /\ files' = [fn \in DOMAIN files \cup {Filename(calls[c])} |->
                              IF fn = Filename(calls[c])
                              THEN [fig |-> Gcf.fig, image |-> Gcf.canvas[Gcf.fig], by |-> c]
                              ELSE files[fn]]
               /\ calls' = [calls EXCEPT ![c].pc = "close"]
          ELSE /\ files' = files
               /\ calls' = [calls EXCEPT ![c].pc = "raised"]
    /\ UNCHANGED <<heap, args, self, ret, textVars, dqVars>>

\* lines 132-135, 222-225, 259-262: plt.show() leaves the figures to the user (a blocking
\* backend returns once every window is closed); plt.close() closes the current figure
CloseOrShow(c) ==
    /\ calls[c].pc = "close"
    /\ IF self.show_plots
       THEN /\ \E windowsClosed \in BOOLEAN : figs' = IF windowsClosed THEN <<>> ELSE figs
            /\ calls' = [calls EXCEPT ![c].pc = "done"]
       ELSE /\ figs' = IF figs = <<>> THEN figs ELSE SubSeq(figs, 1, Len(figs) - 1)
            /\ calls' = [calls EXCEPT ![c].pc = "done",
                                      ![c].closed = IF figs = <<>> THEN {} ELSE {figs[Len(figs)]}]
    /\ UNCHANGED <<heap, args, self, ret, canvas, files, textVars, dqVars>>

TopTen == <<"T", "o", "p", " ", "1", "0", "!">>

PlotInit ==
    /\ \E hi \in HistFrames, im \in ImportanceFrames :
          heap = <<Default2025, PlainList(<<10, 20>>), hi, DefaultForecast, im>>
    /\ args = NoArgs
    /\ ret = NoRet
    /\ \E show \in BOOLEAN : self = NewVisualizer(show)
    /\ PlotIdle
    /\ title = TopTen
    /\ stdout = <<>>
    /\ DQIdle

Init == PlotInit

\* calls made one after the other, as the pipeline does
Next ==
    \/ Begin(1, MaxCalls, CallChoices({<<"r", "f">>}, {title}))
    \/ \E c \in 1..Len(calls) : Prepare(c)
    \/ \E c \in 1..Len(calls) : Subplots(c)
    \/ \E c \in 1..Len(calls) : Draw(c)
    \/ \E c \in 1..Len(calls) : Xticks(c)
    \/ \E c \in 1..Len(calls) : TightLayout(c)
    \/ \E c \in 1..Len(calls) : SaveFig(c)
    \/ \E c \in 1..Len(calls) : CloseOrShow(c)

Spec == Init /\ [][Next]_vars

AllFinished == \A c \in 1..Len(calls) : calls[c].pc \in Finished

\* C1: with show_plots=False every plotting call closes the figure it created on every
\* exit path, so once the calls made so far have returned or raised, no figure is open.
C1_NoFigureLeak == (~self.show_plots /\ AllFinished) => figs = <<>>

\* a plot_forecast call whose historical frame is empty, or is left empty by the
\* hist_start_year filter
NoAnchor(c) ==
    /\ calls[c].kind = "forecast"
    /\ \/ NRows(heap[HIST]) = 0
       \/ /\ calls[c].hist_start_year # None
          /\ HasCol(heap[HIST], "year")
          /\ \A i \in 1..NRows(heap[HIST]) : heap[HIST].cols["year"][i] < calls[c].hist_start_year

\* C6: plot_forecast without a historical point to anchor on raises instead of returning,
\* writes no image file and leaves no figure open.
C6_EmptyHistoryFailsLoudly ==
    \A c \in 1..Len(calls) :
        NoAnchor(c) =>
            /\ calls[c].pc \in {"prepare", "raised"}
            /\ calls[c].fig = 0
            /\ calls[c].closed = {}
            /\ \A fn \in DOMAIN files : files[fn].by # c

C6_Witness ==
    \E c \in 1..Len(calls) :
        /\ NoAnchor(c)
        /\ calls[c].hist_start_year = 2025
        /\ NRows(heap[HIST]) > 0
        /\ calls[c].pc = "raised"

----------------------------------------------------------------------------
(* Two plotting calls running at the same time (threads) *)

MaxThreads == 2

ModelNames == {<<"r", "f">>, <<"x", "g">>}

\* a second title with the same filename fragment as "Top 10!"
OtherTitle == <<"t", "o", "p", "_", "1", "0", "?">>

NextConcurrent ==
    \/ Begin(MaxThreads, MaxThreads, CallChoices(ModelNames, {title, OtherTitle}))
    \/ \E c \in 1..Len(calls) : Prepare(c)
    \/ \E c \in 1..Len(calls) : Subplots(c)
    \/ \E c \in 1..Len(calls) : Draw(c)
    \/ \E c \in 1..Len(calls) : Xticks(c)
    \/ \E c \in 1..Len(calls) : TightLayout(c)
    \/ \E c \in 1..Len(calls) : SaveFig(c)
    \/ \E c \in 1..Len(calls) : CloseOrShow(c)

SpecConcurrent == Init /\ [][NextConcurrent]_vars

\* the finished figure of call c: everything it draws, with its tick and layout formatting
CompleteImage(c) ==
    [artists |-> Artists(c),
     xticks |-> IF calls[c].kind = "feature_importance" THEN 0 ELSE 45,
     tight |-> TRUE]

\* C2: interleaved calls with different filenames each save the figure they drew and
\* close only their own figure; with the same filename the file ends up holding the
\* complete figure of the call that saved last.
C2_Reentrant ==
    (~self.show_plots /\ \A c \in 1..Len(calls) : calls[c].pc # "raised") =>
        /\ \A c \in 1..Len(calls) :
              /\ calls[c].closed \subseteq {calls[c].fig}
              /\ (/\ calls[c].pc = "done"
                  /\ \A d \in 1..Len(calls) : d # c => Filename(calls[d]) # Filename(calls[c]))
                 => /\ Filename(calls[c]) \in DOMAIN files
                    /\ files[Filename(calls[c])].fig = calls[c].fig
                    /\ files[Filename(calls[c])].image = CompleteImage(c)
        /\ \A fn \in DOMAIN files :
              (\A c \in 1..Len(calls) : Filename(calls[c]) = fn => calls[c].pc = "done")
              => /\ files[fn].fig = calls[files[fn].by].fig
                 /\ files[fn].image = CompleteImage(files[fn].by)

----------------------------------------------------------------------------
(* plot_feature_importance over titles *)

MaxTitleCalls == 1

TitleChars == {"T", "a", " ", "1", "!", "/", "-"}

InitSanitize ==
    /\ DataIdle
    /\ self = NewVisualizer(FALSE)
    /\ PlotIdle
    /\ title \in SeqsUpTo(TitleChars, MaxTitleLen) \cup {TopTen}
    /\ stdout = <<>>
    /\ DQIdle

NextSanitize ==
    \/ Begin(1, MaxTitleCalls, {NewCall("feature_importance", 2025, title, None, None)})
    \/ \E c \in 1..Len(calls) : Subplots(c)
    \/ \E c \in 1..Len(calls) : Draw(c)
    \/ \E c \in 1..Len(calls) : TightLayout(c)
    \/ \E c \in 1..Len(calls) : SaveFig(c)
    \/ \E c \in 1..Len(calls) : CloseOrShow(c)

SpecSanitize == InitSanitize /\ [][NextSanitize]_vars

\* what the sanitization makes of one character
SafeChars ==
    {"a", "b", "c", "d", "e", "f", "g", "h", "i", "j", "k", "l", "m",
     "n", "o", "p", "q", "r", "s", "t", "u", "v", "w", "x", "y", "z",
     "0", "1", "2", "3", "4", "5", "6", "7", "8", "9", "-", "_"}

ExpectedChar(ch) ==
    IF ch \in SafeChars THEN ch
    ELSE IF ch = "T" THEN "t"
    ELSE "_"

\* the fragments under which feature-importance images were saved
SavedFragments == {fn[2] : fn \in {f \in DOMAIN files : f[1] = "feature_importance_"}}

FragmentSafe(frag) == \A i \in 1..Len(frag) : frag[i] \in SafeChars

\* the title without its leading and trailing whitespace
Core(t) ==
    LET first == {i \in 1..Len(t) : t[i] \notin Whitespace}
    IN  IF first = {} THEN <<>>
        ELSE SubSeq(t, CHOOSE i \in first : \A j \in first : i <= j, SetMax(first))

\* C5 as stated: the fragment is the title, lowercased, with every character that is not
\* alphanumeric, '-' or '_' replaced by '_'; it holds only such characters; "Top 10!"
\* gives "top_10_".
C5_FragmentOfWholeTitle ==
    \A frag \in SavedFragments :
        /\ frag = [i \in 1..Len(title) |-> ExpectedChar(title[i])]
        /\ FragmentSafe(frag)
        /\ title = TopTen => frag = <<"t", "o", "p", "_", "1", "0", "_">>

\* C5 amended: the same, of the title with its leading and trailing whitespace removed.
C5_FragmentOfStrippedTitle ==
    \A frag \in SavedFragments :
        /\ frag = [i \in 1..Len(Core(title)) |-> ExpectedChar(Core(title)[i])]
        /\ FragmentSafe(frag)
        /\ title = TopTen => frag = <<"t", "o", "p", "_", "1", "0", "_">>

C5_Witness ==
    /\ title = TopTen
    /\ SavedFragments = {<<"t", "o", "p", "_", "1", "0", "_">>}

----------------------------------------------------------------------------
(* print_feature_importance, lines 276-285 *)

\* the character repeated to draw the bar (line 281)
Glyph == <<>>

RECURSIVE Repeat(_, _)
Repeat(str, k) == IF k <= 0 THEN <<>> ELSE str \o Repeat(str, k - 1)

\* int(x) of the rational num/den: truncation toward zero
int(num, den) == IF num >= 0 THEN num \div den ELSE -((-num) \div den)

\* Importance values are held in ten-thousandths, the precision printed by :.4f
ImportanceUnit == 10000

BarScale == 50

Bar(importance) == Repeat(Glyph, int(importance * BarScale, ImportanceUnit))

Rule == [kind |-> "rule", feature |-> "", importance |-> 0, bar |-> <<>>]

print_feature_importance(df, t) ==
    <<Rule, [kind |-> "title", feature |-> "", importance |-> 0, bar |-> t], Rule>>
    \o (IF fi_raises(df) THEN <<>>
        ELSE [i \in 1..NRows(df) |->
                [kind |-> "row", feature |-> df.cols["Feature"][i],
                 importance |-> df.cols["Importance"][i],
                 bar |-> Bar(df.cols["Importance"][i])]])

PrintFeatureImportance ==
    /\ stdout' = stdout \o print_feature_importance(heap[IMP], title)
    /\ ret' = [op |-> "print_feature_importance", raised |-> fi_raises(heap[IMP]),
               out |-> EmptyFrame, hist |-> EmptyFrame]
    /\ UNCHANGED <<heap, args, self, plotVars, title, dqVars>>

FeatureNames == {"lag_1", "sst"}

ImportanceValues == {0, 199, 200, 2500, 10000}

InitPrint ==
    /\ \E fs \in SeqsUpTo(FeatureNames \X ImportanceValues, MaxImpRows) :
          heap = <<Default2025, PlainList(<<1, 2>>), DefaultHist, DefaultForecast,
                   ImportanceFrame([i \in 1..Len(fs) |-> fs[i][1]], [i \in 1..Len(fs) |-> fs[i][2]])>>
    /\ args = NoArgs
    /\ ret = NoRet
    /\ self = NewVisualizer(FALSE)
    /\ PlotIdle
    /\ title = TopTen
    /\ stdout = <<>>
    /\ DQIdle

NextPrint == stdout = <<>> /\ PrintFeatureImportance

SpecPrint == InitPrint /\ [][NextPrint]_vars

\* C4: one line per row of importance_df, in row order, each with a bar of
\* floor(importance * 50) glyph characters.
C4_BarLength ==
    (ret.op = "print_feature_importance") =>
        LET rows == SelectSeq(stdout, LAMBDA l : l.kind = "row")
            df == heap[IMP]
        IN  /\ Len(rows) = NRows(df)
            /\ \A i \in 1..NRows(df) :
                  /\ rows[i].feature = df.cols["Feature"][i]
                  /\ Len(rows[i].bar) = (df.cols["Importance"][i] * 50) \div 10000

----------------------------------------------------------------------------
(* test_data_quality, src/data_quality/test_data_quality.py lines 8-25 *)

DengueRequired == {"data_iniSE", "casos_est"}

SstRequired == {"YR", "MON", "NINO1+2", "NINO3", "NINO3.4", "ANOM.3"}

\* the required names in the order sorted() gives them
DengueSorted == <<"casos_est", "data_iniSE">>

SstSorted == <<"ANOM.3", "MON", "NINO1+2", "NINO3", "NINO3.4", "YR">>

\* required - set(df.columns)
MissingSwapped(required, columns) == columns \ required

Missing(required, columns) == required \ columns

sorted(order, names) == SelectSeq(order, LAMBDA x : x \in names)

test_data_quality(d) ==
    IF ~d.dengue.exists THEN [status |-> "failed", dataset |-> "Missing dengue dataset", names |-> <<>>]
    ELSE IF ~d.sst.exists THEN [status |-> "failed", dataset |-> "Missing SST dataset", names |-> <<>>]
    ELSE IF Missing(DengueRequired, d.dengue.columns) # {}
         THEN [status |-> "failed", dataset |-> "[dengue] Missing columns",
               names |-> sorted(DengueSorted, Missing(DengueRequired, d.dengue.columns))]
    ELSE IF Missing(SstRequired, d.sst.columns) # {}
         THEN [status |-> "failed", dataset |-> "[sst] Missing columns",
               names |-> sorted(SstSorted, Missing(SstRequired, d.sst.columns))]
    ELSE [status |-> "passed", dataset |-> "", names |-> <<>>]

TestDataQuality ==
    /\ outcome' = test_data_quality(datasets)
    /\ UNCHANGED <<heap, args, self, ret, plotVars, textVars, datasets>>

InitDQ ==
    /\ DataIdle
    /\ self = NewVisualizer(FALSE)
    /\ PlotIdle /\ TextIdle
    /\ \E de, se \in BOOLEAN :
       \E dc \in SUBSET (DengueRequired \cup {"Rt"}), sc \in SUBSET (SstRequired \cup {"ANOM"}) :
          datasets = [dengue |-> [exists |-> de, columns |-> dc], sst |-> [exists |-> se, columns |-> sc]]
    /\ outcome = [status |-> "not_run", dataset |-> "", names |-> <<>>]

NextDQ == TestDataQuality

SpecDQ == InitDQ /\ [][NextDQ]_vars

BothRead == datasets.dengue.exists /\ datasets.sst.exists

AbsentDengue == {c \in DengueRequired : c \notin datasets.dengue.columns}

AbsentSst == {c \in SstRequired : c \notin datasets.sst.columns}

PassesOnlyWithAllColumns ==
    /\ outcome.status = "passed" => (AbsentDengue = {} /\ AbsentSst = {})
    /\ (AbsentDengue # {} \/ AbsentSst # {}) => outcome.status = "failed"

\* C10 as stated: the check passes only with every required column present, fails when
\* any is absent, and the report names every missing column of both datasets and no other.
C10_ReportNamesAllMissing ==
    (outcome.status # "not_run" /\ BothRead) =>
        /\ PassesOnlyWithAllColumns
        /\ outcome.status = "failed" => Range(outcome.names) = AbsentDengue \cup AbsentSst

\* C10 amended: the report names exactly the missing columns of the first dataset that
\* lacks any: the dengue dataset's, or the SST dataset's when the dengue dataset is complete.
C10_ReportNamesFirstDataset ==
    (outcome.status # "not_run" /\ BothRead) =>
        /\ PassesOnlyWithAllColumns
        /\ outcome.status = "passed" <=> (AbsentDengue = {} /\ AbsentSst = {})
        /\ outcome.status = "failed" =>
              /\ IsUnique(outcome.names)
              /\ Range(outcome.names) = IF AbsentDengue # {} THEN AbsentDengue ELSE AbsentSst

C10_Witness ==
    /\ outcome.status = "failed"
    /\ BothRead
    /\ AbsentDengue = {"casos_est"}
    /\ AbsentSst = {"YR", "NINO3"}
    /\ outcome.names = <<"casos_est">>

====
